---- MODULE Spec2Model ----
(***************************************************************************)
(* A model of src/App.js, the PdfFillerApp component: the React state of   *)
(* the component, the asynchronous batch runs started by processCsvData    *)
(* (one per accepted file drop, interleaving at every await), the          *)
(* per-row fillPdfForm pipeline, and the download handler.                 *)
(*                                                                         *)
(* JavaScript values are records tagged by their type; text that the       *)
(* program inspects (column names, cell values, field text) is a sequence  *)
(* of one-character strings, messages are TLC strings.                     *)
(***************************************************************************)
EXTENDS Integers, Sequences, FiniteSets, TLC

\* ------------------------------------------------------------------ bounds

\* accepted file drops per behaviour (each one owns a run slot)
MaxRuns == 2
\* rows of a dropped file
MaxRows == 2
\* pages of the embedded template
MaxPages == 2
\* columns whose name contains "States" in a generated row
MaxStateCols == 3

\* ------------------------------------------------------- JavaScript values

Null == [t |-> "null"]
Undefined == [t |-> "undefined"]
Str(s) == [t |-> "str", s |-> s]
Num(n) == [t |-> "num", n |-> n]
Bool(b) == [t |-> "bool", b |-> b]
\* an error or status message (a TLC string)
Msg(m) == [t |-> "msg", m |-> m]

\* JavaScript truthiness: null, undefined, '', 0 and false are falsy; every
\* object (a document, a byte buffer) and every message here is truthy
Truthy(v) ==
  IF "t" \notin DOMAIN v THEN TRUE
  ELSE CASE v.t = "null" -> FALSE
         [] v.t = "undefined" -> FALSE
         [] v.t = "str" -> v.s # <<>>
         [] v.t = "num" -> v.n # 0
         [] v.t = "bool" -> v.b
         [] OTHER -> TRUE

Digit(d) == <<"0", "1", "2", "3", "4", "5", "6", "7", "8", "9">>[d + 1]

RECURSIVE NatToText(_)
NatToText(n) == IF n < 10 THEN <<Digit(n)>> ELSE NatToText(n \div 10) \o <<Digit(n % 10)>>

\* String(value), as applied on line 98
ToText(v) ==
  CASE v.t = "str" -> v.s
    [] v.t = "num" -> NatToText(v.n)
    [] v.t = "bool" -> IF v.b THEN <<"t", "r", "u", "e">> ELSE <<"f", "a", "l", "s", "e">>
    [] v.t = "null" -> <<"n", "u", "l", "l">>
    [] OTHER -> <<"u", "n", "d", "e", "f", "i", "n", "e", "d">>

IsSpace(c) == c \in {" ", "\t"}

RECURSIVE TrimStart(_)
TrimStart(s) == IF s # <<>> /\ IsSpace(Head(s)) THEN TrimStart(Tail(s)) ELSE s

RECURSIVE TrimEnd(_)
TrimEnd(s) ==
  IF s # <<>> /\ IsSpace(s[Len(s)]) THEN TrimEnd(SubSeq(s, 1, Len(s) - 1)) ELSE s

\* String.prototype.trim
Trim(s) == TrimEnd(TrimStart(s))

\* String.prototype.includes
Includes(hay, needle) ==
  \E i \in 0..(Len(hay) - Len(needle)) : SubSeq(hay, i + 1, i + Len(needle)) = needle

RECURSIVE JoinFrom(_, _, _)
JoinFrom(xs, sep, i) ==
  IF i > Len(xs) THEN <<>>
  ELSE IF i = Len(xs) THEN xs[i]
  ELSE xs[i] \o sep \o JoinFrom(xs, sep, i + 1)

\* Array.prototype.join over an array of texts
Join(xs, sep) == JoinFrom(xs, sep, 1)

\* ------------------------------------------------------------ row records

\* A row (one element of results.data) is the sequence of its [k, v] entries in
\* insertion order, the order Object.keys and Object.entries follow.

\* rowData[key]
Get(rowData, key) ==
  IF \E i \in 1..Len(rowData) : rowData[i].k = key
  THEN rowData[CHOOSE i \in 1..Len(rowData) : rowData[i].k = key].v
  ELSE Undefined

\* ------------------------------------------------------------ column names

KClient == <<"C", "l", "i", "e", "n", "t">>
KProsystems == <<"P", "r", "o", "s", "y", "s", "t", "e", "m", "s", " ", "#">>
KTaxYear == <<"T", "a", "x", " ", "Y", "e", "a", "r">>
KReturnType == <<"R", "e", "t", "u", "r", "n", " ", "T", "y", "p", "e">>
KFileDirectory == <<"F", "i", "l", "e", " ", "D", "i", "r", "e", "c", "t", "o", "r", "y">>
\* the literal 'States' of line 108
KStates == <<"S", "t", "a", "t", "e", "s">>

\* Object.entries(fieldMappings), lines 84-90
fieldMappings ==
  << [csvField |-> KClient, pdfField |-> "Client"],
     [csvField |-> KProsystems, pdfField |-> "ProSystem's #"],
     [csvField |-> KTaxYear, pdfField |-> "Tax Year"],
     [csvField |-> KReturnType, pdfField |-> "Return Type"],
     [csvField |-> KFileDirectory, pdfField |-> "File Directory"] >>

\* the text fields the fill looks up by name (lines 96 and 116)
PdfFields ==
  {"Client", "ProSystem's #", "Tax Year", "Return Type", "File Directory", "States"}

\* -------------------------------------------------------------- documents

\* Serialized PDF bytes: the text fields of the form with their values, and the
\* pages. A page is [no |-> n], with vals |-> the baked field values once the
\* form was flattened onto it.
TemplateBytes(fields, n) ==
  [kind |-> "bytes", form |-> [f \in fields |-> <<>>], pages |-> [p \in 1..n |-> [no |-> p]]]

\* PDFDocument.create()
CreateDoc == [kind |-> "doc", form |-> <<>>, pages |-> <<>>]

\* PDFDocument.load(bytes)
LoadDoc(bytes) == [kind |-> "doc", form |-> bytes.form, pages |-> bytes.pages]

\* a page made by addPage() with no argument
BlankPage == [no |-> 0]

\* What save() does to the document before it writes it: pdf-lib's save
\* option addDefaultPage defaults to true, and a document with no page is
\* given one blank page.
PrepareForSave(doc) ==
  IF doc.pages = <<>> THEN [doc EXCEPT !.pages = <<BlankPage>>] ELSE doc

\* the bytes pdfDoc.save() and mergedPdf.save() resolve to (lines 132 and 66)
SaveDoc(doc) ==
  [kind |-> "bytes", form |-> PrepareForSave(doc).form, pages |-> PrepareForSave(doc).pages]

\* form.flatten(): every page gets the field values baked in, no field is left
Flatten(doc) ==
  [kind |-> "doc", form |-> <<>>,
   pages |-> [p \in 1..Len(doc.pages) |-> [no |-> doc.pages[p].no, vals |-> doc.form]]]

\* filledPdf.getPageIndices(): 0-based
GetPageIndices(doc) == [j \in 1..Len(doc.pages) |-> j - 1]

\* mergedPdf.copyPages(filledPdf, indices)
CopyPages(doc, indices) == [j \in 1..Len(indices) |-> doc.pages[indices[j] + 1]]

\* copiedPages.forEach(page => mergedPdf.addPage(page)), lines 58-60
AddPages(merged, copiedPages) ==
  [merged EXCEPT !.pages = @ \o copiedPages]

\* ----------------------------------------------------------- fillPdfForm

\* The state of the outer try block of fillPdfForm: the form being filled and
\* whether an exception has escaped to the catch of line 123.
FillStart(doc) == [form |-> doc.form, threw |-> FALSE, message |-> ""]

MappedValueNoDefault(rowData, csvField) == Get(rowData, csvField)

\* const value = rowData[csvField] || '', line 94
MappedValue(rowData, csvField) ==
  LET v == Get(rowData, csvField) IN IF Truthy(v) THEN v ELSE Str(<<>>)

SetFieldFatal(st, pdfField, text) ==
  IF st.threw THEN st
  ELSE IF pdfField \in DOMAIN st.form
  THEN [st EXCEPT !.form = [@ EXCEPT ![pdfField] = text]]
  ELSE [st EXCEPT !.threw = TRUE, !.message = "no form field"]

\* The inner try of lines 95-102 and 115-122: getTextField throws when the
\* form has no text field of that name; the catch logs a warning and goes on.
SetField(st, pdfField, text) ==
  IF st.threw THEN st
  ELSE IF pdfField \in DOMAIN st.form
  THEN [st EXCEPT !.form = [@ EXCEPT ![pdfField] = text]]
  ELSE st

RECURSIVE FillMapped(_, _, _)
\* Object.entries(fieldMappings).forEach(...), lines 93-103
FillMapped(st, rowData, i) ==
  IF i > Len(fieldMappings) THEN st
  ELSE FillMapped(
         SetField(st, fieldMappings[i].pdfField,
                  ToText(MappedValue(rowData, fieldMappings[i].csvField))),
         rowData, i + 1)

\* rowData[key].trim() is a TypeError when the value is truthy and no string
TrimThrows(rowData) ==
  \E i \in 1..Len(rowData) :
    /\ Includes(rowData[i].k, KStates)
    /\ Truthy(rowData[i].v)
    /\ rowData[i].v.t # "str"

\* key.includes('States') && rowData[key] && rowData[key].trim(), line 108
KeepsStateKey(rowData, i) ==
  /\ Includes(rowData[i].k, KStates)
  /\ Truthy(rowData[i].v)
  /\ Truthy(Str(Trim(rowData[i].v.s)))

RECURSIVE StateFieldsFrom(_, _)
StateFieldsFrom(rowData, i) ==
  IF i > Len(rowData) THEN <<>>
  ELSE (IF KeepsStateKey(rowData, i) THEN <<rowData[i].k>> ELSE <<>>)
       \o StateFieldsFrom(rowData, i + 1)

\* Object.keys(rowData).filter(...), lines 107-109
stateFields(rowData) == StateFieldsFrom(rowData, 1)

RECURSIVE FilterTruthy(_)
\* .filter(Boolean)
FilterTruthy(vs) ==
  IF vs = <<>> THEN <<>>
  ELSE (IF Truthy(Head(vs)) THEN <<Head(vs)>> ELSE <<>>) \o FilterTruthy(Tail(vs))

\* stateFields.map(field => rowData[field]).filter(Boolean), line 112
stateValues(rowData) ==
  LET fs == stateFields(rowData)
  IN FilterTruthy([j \in 1..Len(fs) |-> Get(rowData, fs[j])])

statesTextNoSpace(rowData) ==
  LET vs == stateValues(rowData)
  IN Join([j \in 1..Len(vs) |-> vs[j].s], <<",">>)

\* stateValues.join(', '), line 113
statesText(rowData) ==
  LET vs == stateValues(rowData)
  IN Join([j \in 1..Len(vs) |-> vs[j].s], <<",", " ">>)

\* The States part of the outer try, lines 107-122
FillStates(st, rowData) ==
  IF st.threw THEN st
  ELSE IF TrimThrows(rowData)
  THEN [st EXCEPT !.threw = TRUE, !.message = "rowData[key].trim is not a function"]
  ELSE SetField(st, "States", statesText(rowData))

\* The outer try of lines 82-126: the mapped fields, then States; an escaped
\* exception is rethrown as `Error filling PDF form: ${err.message}`.
FillForm(doc, rowData) ==
  LET st == FillStates(FillMapped(FillStart(doc), rowData, 1), rowData)
  IN IF st.threw
     THEN [threw |-> TRUE, message |-> "Error filling PDF form: " \o st.message]
     ELSE [threw |-> FALSE, doc |-> [doc EXCEPT !.form = st.form]]

\* fillPdfForm(templateBytes, rowData) as a whole, lines 77-133: the bytes it
\* resolves to, or the error of line 125
fillPdfForm(templateBytes, rowData) ==
  LET res == FillForm(LoadDoc(templateBytes), rowData)
  IN IF res.threw THEN res
     ELSE [threw |-> FALSE, bytes |-> SaveDoc(Flatten(res.doc))]

\* ------------------------------------------------------------------ inputs

TAcme == <<"A", "c", "m", "e">>
TGlobex == <<"G", "l", "o", "b", "e", "x">>
KStatesA == KStates \o <<"_", "A">>
KStatesB == KStates \o <<"_", "B">>

\* Parsed rows (results.data) of files with the header
\* Client, Prosystems #, Tax Year, States_A, States_B; dynamicTyping has turned
\* numeric cells into numbers and empty cells into null.
Row(client, prosystems, taxYear, statesA, statesB) ==
  << [k |-> KClient, v |-> client], [k |-> KProsystems, v |-> prosystems],
     [k |-> KTaxYear, v |-> taxYear], [k |-> KStatesA, v |-> statesA],
     [k |-> KStatesB, v |-> statesB] >>

RowAcme == Row(Str(TAcme), Num(0), Num(2023), Str(<<"C", "A">>), Null)
RowGlobex == Row(Str(TGlobex), Num(7), Num(2022), Null, Str(<<"N", "Y", ",", " ", "T", "X">>))
\* a States column holding a number
RowTyped == Row(Null, Null, Num(2021), Num(7), Null)

RowPool == {RowAcme, RowGlobex, RowTyped}

\* What reading and parsing a dropped file yields: rows, or parse errors
Files ==
  {[ok |-> TRUE, data |-> d] : d \in UNION {[1..n -> RowPool] : n \in 0..MaxRows}}
    \cup {[ok |-> FALSE, data |-> <<>>]}

\* The embedded template of the build: all six fields, or one that lacks some
Templates ==
  {TemplateBytes(PdfFields, 1), TemplateBytes(PdfFields \ {"Client", "States"}, MaxPages)}

\* --------------------------------------------------------------- the state

VARIABLES
  processing,      \* useState(false), line 8
  error,           \* useState(null), line 9
  completedPdf,    \* useState(null), line 10
  templatePdf,     \* useState(null), line 11
  processedCount,  \* useState(0), line 12
  effect,          \* whether the useEffect of lines 15-31 has run
  runs,            \* per accepted drop: the FileReader and the processCsvData call
  saved,           \* what saveAs was last handed
  call             \* a single call of fillPdfForm (specification SpecFill)

vars == <<processing, error, completedPdf, templatePdf, processedCount, effect, runs, saved, call>>

RunIds == 1..MaxRuns

\* The locals of one drop: pc is where its callbacks and its processCsvData call
\* stand, file what the reader yields, tpl the templatePdf its closure holds,
\* csvData, idx (the 1-based position of `row` in the for-of loop), mergedPdf,
\* cur (pdfDoc, then pdfBytes, then filledPdf), err (the caught message) and at
\* (where the exception was thrown, or which callback rejected the file).
IdleRun ==
  [pc |-> "idle", file |-> Null, tpl |-> Null, csvData |-> <<>>, idx |-> 0,
   mergedPdf |-> Null, cur |-> Null, err |-> "", at |-> ""]

Init ==
  /\ processing = FALSE
  /\ error = Null
  /\ completedPdf = Null
  /\ templatePdf = Null
  /\ processedCount = 0
  /\ effect = "pending"
  /\ runs = [r \in RunIds |-> IdleRun]
  /\ saved = Null
  /\ call = [pc |-> "off"]

\* ---------------------------------------------------------- loadTemplate

\* lines 19-24: the embedded base64 decodes
LoadTemplateOk ==
  /\ effect = "pending"
  /\ \E t \in Templates : templatePdf' = t
  /\ effect' = "done"
  /\ UNCHANGED <<processing, error, completedPdf, processedCount, runs, saved, call>>

\* lines 25-27: atob throws
LoadTemplateFails ==
  /\ effect = "pending"
  /\ error' = Msg("Failed to load embedded PDF template: " \o "invalid base64")
  /\ effect' = "done"
  /\ UNCHANGED <<processing, completedPdf, templatePdf, processedCount, runs, saved, call>>

\* ------------------------------------------------------------------ onDrop

\* lines 153-158: setError(null), then not exactly one accepted file
OnDropWrongCount ==
  /\ effect = "done"
  /\ error' = Msg("Please upload exactly one CSV file")
  /\ UNCHANGED <<processing, completedPdf, templatePdf, processedCount, effect, runs, saved, call>>

\* lines 153-165: setError(null), then a file that is no CSV
OnDropWrongType ==
  /\ effect = "done"
  /\ error' = Msg("Please upload a CSV file")
  /\ UNCHANGED <<processing, completedPdf, templatePdf, processedCount, effect, runs, saved, call>>

\* lines 153-197: setError(null) and reader.readAsText(file); the callbacks
\* close over the processCsvData, and so the templatePdf, of this render.
\* (readAsText on a fresh FileReader does not throw: the catch of line 198 is
\* never entered.)
OnDropAccepted(r) ==
  /\ effect = "done"
  /\ runs[r].pc = "idle"
  /\ \A q \in RunIds : q < r => runs[q].pc # "idle"
  /\ error' = Null
  /\ \E f \in Files :
       runs' = [runs EXCEPT ![r] = [@ EXCEPT !.pc = "reading", !.file = f, !.tpl = templatePdf]]
  /\ UNCHANGED <<processing, completedPdf, templatePdf, processedCount, effect, saved, call>>

\* reader.onerror, lines 193-195
ReaderOnError(r) ==
  /\ runs[r].pc = "reading"
  /\ error' = Msg("Failed to read the file")
  /\ runs' = [runs EXCEPT ![r] = [@ EXCEPT !.pc = "rejected", !.at = "read"]]
  /\ UNCHANGED <<processing, completedPdf, templatePdf, processedCount, effect, saved, call>>

ParseFailsNoReturn(r) ==
  /\ runs[r].pc = "reading"
  /\ ~runs[r].file.ok
  /\ error' = Msg("Error parsing CSV: " \o "malformed")
  /\ runs' = [runs EXCEPT ![r] = [@ EXCEPT !.pc = "rejected", !.at = "parse"]]
  /\ processing' = FALSE
  /\ completedPdf' = SaveDoc(CreateDoc)
  /\ processedCount' = 0
  /\ UNCHANGED <<templatePdf, effect, saved, call>>

\* reader.onload with results.errors non-empty, or Papa's error callback:
\* lines 180-183 and 187-189
ParseFails(r) ==
  /\ runs[r].pc = "reading"
  /\ ~runs[r].file.ok
  /\ error' = Msg("Error parsing CSV: " \o "malformed")
  /\ runs' = [runs EXCEPT ![r] = [@ EXCEPT !.pc = "rejected", !.at = "parse"]]
  /\ UNCHANGED <<processing, completedPdf, templatePdf, processedCount, effect, saved, call>>

\* ---------------------------------------------------------- processCsvData

\* A processCsvData call runs between the points where it gives the event loop
\* back: the awaits of PDFDocument.load (lines 78 and 54) and of save (lines
\* 132 and 66), which parse or write a whole document and let timers and events
\* in. PDFDocument.create (line 46), copyPages (line 57) and the save of a
\* document without content resolve within the microtask queue: no other
\* handler runs before the code after them.

\* the message of line 42
NoTemplate == "PDF template not loaded. Please reload the page."

ProcessErrorNoCause(message) == Msg("Failed to process CSV data: ")

\* the value of line 70
ProcessError(message) == Msg("Failed to process CSV data: " \o message)

\* catch and finally, lines 68-73, of run r, for an exception thrown at `at`
\* with err.message = message
Fail(r, at, message) ==
  /\ error' = ProcessError(message)
  /\ processing' = FALSE
  /\ runs' = [runs EXCEPT ![r] = [@ EXCEPT !.pc = "failed", !.err = message, !.at = at]]

MoreRowsNever(csvData, idx) == FALSE

\* whether the for-of loop of line 49 has a row after position idx
MoreRows(csvData, idx) == idx < Len(csvData)

ProcessCsvDataStartNoCheck(r) ==
  /\ runs[r].pc = "reading"
  /\ runs[r].file.ok
  /\ processedCount' = 0
  /\ IF MoreRows(runs[r].file.data, 0)
     THEN /\ error' = Null
          /\ processing' = TRUE
          /\ completedPdf' = Null
          /\ runs' = [runs EXCEPT ![r] = [@ EXCEPT !.pc = "load", !.csvData = runs[r].file.data,
                        !.mergedPdf = CreateDoc, !.idx = 1]]
     ELSE /\ error' = Null
          /\ processing' = FALSE
          /\ completedPdf' = SaveDoc(CreateDoc)
          /\ runs' = [runs EXCEPT ![r] = [@ EXCEPT !.pc = "done", !.csvData = runs[r].file.data,
                        !.mergedPdf = PrepareForSave(CreateDoc)]]
  /\ UNCHANGED <<templatePdf, effect, saved, call>>

\* reader.onload with a clean parse: processCsvData(results.data), lines 185
\* and 35-46, up to the first PDFDocument.load of fillPdfForm; with no
\* template it throws at line 42, and with no row it goes on to lines 66-72.
ProcessCsvDataStart(r) ==
  /\ runs[r].pc = "reading"
  /\ runs[r].file.ok
  /\ processedCount' = 0
  /\ IF ~Truthy(runs[r].tpl)
     THEN /\ error' = ProcessError(NoTemplate)
          /\ processing' = FALSE
          /\ completedPdf' = Null
          /\ runs' = [runs EXCEPT ![r] = [@ EXCEPT !.pc = "failed", !.csvData = runs[r].file.data,
                        !.err = NoTemplate,
                        !.at = "start"]]
     ELSE IF MoreRows(runs[r].file.data, 0)
     THEN /\ error' = Null
          /\ processing' = TRUE
          /\ completedPdf' = Null
          /\ runs' = [runs EXCEPT ![r] = [@ EXCEPT !.pc = "load", !.csvData = runs[r].file.data,
                        !.mergedPdf = CreateDoc, !.idx = 1]]
     ELSE /\ error' = Null
          /\ processing' = FALSE
          /\ completedPdf' = SaveDoc(CreateDoc)
          /\ runs' = [runs EXCEPT ![r] = [@ EXCEPT !.pc = "done", !.csvData = runs[r].file.data,
                        !.mergedPdf = PrepareForSave(CreateDoc)]]
  /\ UNCHANGED <<templatePdf, effect, saved, call>>

LoadDoneCounted(r) ==
  /\ runs[r].pc = "load"
  /\ LET rowData == IF processedCount = 0 THEN runs[r].csvData[runs[r].idx] ELSE <<>>
         res == FillForm(LoadDoc(runs[r].tpl), rowData)
     IN IF res.threw
        THEN /\ Fail(r, "fill", res.message)
             /\ UNCHANGED <<completedPdf, processedCount>>
        ELSE /\ runs' = [runs EXCEPT ![r] = [@ EXCEPT !.pc = "save", !.cur = Flatten(res.doc)]]
             /\ UNCHANGED <<processing, error, completedPdf, processedCount>>
  /\ UNCHANGED <<templatePdf, effect, saved, call>>

LoadDoneInPlace(r) ==
  /\ runs[r].pc = "load"
  /\ LET res == FillForm(LoadDoc(runs[r].tpl), runs[r].csvData[runs[r].idx])
     IN IF res.threw
        THEN /\ Fail(r, "fill", res.message)
             /\ UNCHANGED <<completedPdf, processedCount, templatePdf>>
        ELSE /\ runs' = [runs EXCEPT ![r] = [@ EXCEPT !.pc = "save", !.cur = Flatten(res.doc),
                           !.tpl = [@ EXCEPT !.form = res.doc.form]]]
             /\ templatePdf' = [templatePdf EXCEPT !.form = res.doc.form]
             /\ UNCHANGED <<processing, error, completedPdf, processedCount>>
  /\ UNCHANGED <<effect, saved, call>>

\* PDFDocument.load(templateBytes) resolves: lines 78-129 run to the await of
\* line 132, or the fill throws (line 125) and processCsvData catches it
LoadDone(r) ==
  /\ runs[r].pc = "load"
  /\ LET res == FillForm(LoadDoc(runs[r].tpl), runs[r].csvData[runs[r].idx])
     IN IF res.threw
        THEN /\ Fail(r, "fill", res.message)
             /\ UNCHANGED <<completedPdf, processedCount>>
        ELSE /\ runs' = [runs EXCEPT ![r] = [@ EXCEPT !.pc = "save", !.cur = Flatten(res.doc)]]
             /\ UNCHANGED <<processing, error, completedPdf, processedCount>>
  /\ UNCHANGED <<templatePdf, effect, saved, call>>

\* form.flatten() throws (line 129) after a fill that did not
FlattenThrows(r) ==
  /\ runs[r].pc = "load"
  /\ ~FillForm(LoadDoc(runs[r].tpl), runs[r].csvData[runs[r].idx]).threw
  /\ Fail(r, "flatten", "flatten failed")
  /\ UNCHANGED <<completedPdf, templatePdf, processedCount, effect, saved, call>>

\* pdfDoc.save() resolves (line 132); PDFDocument.load(pdfBytes) is awaited
SaveDone(r) ==
  /\ runs[r].pc = "save"
  /\ runs' = [runs EXCEPT ![r] = [@ EXCEPT !.pc = "reload", !.cur = SaveDoc(runs[r].cur)]]
  /\ UNCHANGED <<processing, error, completedPdf, templatePdf, processedCount, effect, saved, call>>

\* PDFDocument.load(pdfBytes) resolves (line 54) and lines 57-62 run: the pages
\* are copied and added, the count goes up, and the loop goes to the next row
\* (fillPdfForm awaits PDFDocument.load) or to mergedPdf.save()
ReloadDone(r) ==
  /\ runs[r].pc = "reload"
  /\ LET filledPdf == LoadDoc(runs[r].cur)
         copiedPages == CopyPages(filledPdf, GetPageIndices(filledPdf))
         merged == AddPages(runs[r].mergedPdf, copiedPages)
     IN runs' = [runs EXCEPT ![r] =
          IF MoreRows(runs[r].csvData, runs[r].idx)
          THEN [@ EXCEPT !.pc = "load", !.mergedPdf = merged, !.cur = Null, !.idx = @ + 1]
          ELSE [@ EXCEPT !.pc = "mergeSave", !.mergedPdf = merged, !.cur = Null]]
  /\ processedCount' = processedCount + 1
  /\ UNCHANGED <<processing, error, completedPdf, templatePdf, effect, saved, call>>

\* PDFDocument.load(pdfBytes) resolves and copyPages rejects (line 57)
CopyThrows(r) ==
  /\ runs[r].pc = "reload"
  /\ Fail(r, "copy", "copy failed")
  /\ UNCHANGED <<completedPdf, templatePdf, processedCount, effect, saved, call>>

\* mergedPdf.save() resolves: lines 66-67 and the finally of line 72
MergeSaveDone(r) ==
  /\ runs[r].pc = "mergeSave"
  /\ completedPdf' = SaveDoc(runs[r].mergedPdf)
  /\ processing' = FALSE
  /\ runs' = [runs EXCEPT ![r] =
       [@ EXCEPT !.pc = "done", !.mergedPdf = PrepareForSave(runs[r].mergedPdf)]]
  /\ UNCHANGED <<error, templatePdf, processedCount, effect, saved, call>>

AwaitPcs == {"load", "save", "reload", "mergeSave"}

\* err.message of the promise awaited at pc when it rejects
RejectMessage(pc) ==
  IF pc \in {"load", "reload"} THEN "Failed to parse PDF document" ELSE "save failed"

\* the promise awaited at lines 78, 132, 54 or 66 rejects
AwaitRejects(r) ==
  /\ runs[r].pc \in AwaitPcs
  /\ Fail(r, runs[r].pc, RejectMessage(runs[r].pc))
  /\ UNCHANGED <<completedPdf, templatePdf, processedCount, effect, saved, call>>

\* ------------------------------------------------------------- downloadPdf

\* The button of lines 275-280 is rendered only while completedPdf is set.
\* lines 136-144: saveAs is handed the artifact
DownloadPdf ==
  /\ Truthy(completedPdf)
  /\ saved' = completedPdf
  /\ UNCHANGED <<processing, error, completedPdf, templatePdf, processedCount, effect, runs, call>>

\* lines 145-148: Blob or saveAs throws
DownloadThrows ==
  /\ Truthy(completedPdf)
  /\ error' = Msg("Failed to download file: " \o "save refused")
  /\ UNCHANGED <<processing, completedPdf, templatePdf, processedCount, effect, runs, saved, call>>

Next ==
  \/ LoadTemplateOk
  \/ LoadTemplateFails
  \/ OnDropWrongCount
  \/ OnDropWrongType
  \/ DownloadPdf
  \/ DownloadThrows
  \/ \E r \in RunIds :
       \/ OnDropAccepted(r)
       \/ ReaderOnError(r)
       \/ ParseFails(r)
       \/ ProcessCsvDataStart(r)
       \/ LoadDone(r)
       \/ FlattenThrows(r)
       \/ SaveDone(r)
       \/ ReloadDone(r)
       \/ CopyThrows(r)
       \/ MergeSaveDone(r)
       \/ AwaitRejects(r)

Spec == Init /\ [][Next]_vars

\* ------------------------------------------- single calls of fillPdfForm

MappedCols == <<KClient, KProsystems, KTaxYear, KReturnType, KFileDirectory>>

RECURSIVE RowFrom(_, _, _)
\* the row with column cols[j] holding vals[j], for every j from i on whose
\* value is not undefined (an undefined value stands for a column the file lacks)
RowFrom(cols, vals, i) ==
  IF i > Len(cols) THEN <<>>
  ELSE (IF vals[i] = Undefined THEN <<>> ELSE <<[k |-> cols[i], v |-> vals[i]]>>)
       \o RowFrom(cols, vals, i + 1)

\* what dynamicTyping can deliver for a cell, and undefined for no column
MappedVals == {Undefined, Null, Str(<<"x">>), Num(0), Num(7), Bool(FALSE), Bool(TRUE)}

\* every pattern of present and missing mapped columns, and every kind of value
\* in each one column
MappedParts ==
  {RowFrom(MappedCols, f, 1) : f \in [1..5 -> {Undefined, Str(<<"x">>)}]}
    \cup {RowFrom(MappedCols, [j \in 1..5 |-> IF j = c THEN v ELSE Undefined], 1) :
            c \in 1..5, v \in MappedVals}

\* names that contain 'States': at the start, or after a prefix
StateColName(i) ==
  IF i % 2 = 1 THEN KStates \o NatToText(i) ELSE <<"U", "S", " ">> \o KStates \o NatToText(i)

StateVals == {Null, Str(<<" ">>), Str(<<"C", "A">>), Str(<<" ", "N", "Y">>), Num(0), Num(7)}

StatesParts ==
  UNION {{[i \in 1..n |-> [k |-> StateColName(i), v |-> f[i]]] : f \in [1..n -> StateVals]} :
           n \in 0..MaxStateCols}

\* a column whose name does not contain 'States' (includes is case-sensitive)
Decoy == <<[k |-> <<"s", "t", "a", "t", "e", "s">>, v |-> Str(<<"Z">>)]>>

GenRows ==
  {m \o <<[k |-> KStates, v |-> Str(<<"C", "A">>)]>> : m \in MappedParts}
    \cup {<<[k |-> KClient, v |-> Str(TAcme)]>> \o Decoy \o sp : sp \in StatesParts}

AllTemplates == {TemplateBytes(fs, n) : fs \in SUBSET PdfFields, n \in 1..MaxPages}

InitFill ==
  /\ processing = FALSE
  /\ error = Null
  /\ completedPdf = Null
  /\ templatePdf = Null
  /\ processedCount = 0
  /\ effect = "pending"
  /\ runs = [r \in RunIds |-> IdleRun]
  /\ saved = Null
  /\ call \in {[pc |-> "called", templateBytes |-> t, rowData |-> row] :
                 t \in AllTemplates, row \in GenRows}

\* lines 78-126: the template is decoded and the form filled, or the fill throws
CallFill ==
  /\ call.pc = "called"
  /\ LET res == FillForm(LoadDoc(call.templateBytes), call.rowData)
     IN call' = IF res.threw
                THEN [call EXCEPT !.pc = "threw", !.message = res.message]
                ELSE [pc |-> "filled", templateBytes |-> call.templateBytes,
                      rowData |-> call.rowData, pdfDoc |-> res.doc]
  /\ UNCHANGED <<processing, error, completedPdf, templatePdf, processedCount, effect, runs, saved>>

\* lines 129-132: flatten and save
CallReturn ==
  /\ call.pc = "filled"
  /\ call' = [pc |-> "returned", templateBytes |-> call.templateBytes,
              rowData |-> call.rowData, bytes |-> SaveDoc(Flatten(call.pdfDoc))]
  /\ UNCHANGED <<processing, error, completedPdf, templatePdf, processedCount, effect, runs, saved>>

NextFill == CallFill \/ CallReturn

SpecFill == InitFill /\ [][NextFill]_vars

\* ------------------------------------------------------------------ claims

\* the positions of the rows whose pipeline is under way
RowPcs == {"load", "save", "reload"}

\* the pages of the document fillPdfForm returns for one row (none when it
\* throws)
FilledPages(tpl, rowData) ==
  LET res == fillPdfForm(tpl, rowData)
  IN IF res.threw THEN <<>> ELSE LoadDoc(res.bytes).pages

RECURSIVE ConcatRows(_, _, _)
\* the pages of rows 1..n of csvData, row after row
ConcatRows(tpl, csvData, n) ==
  IF n = 0 THEN <<>>
  ELSE ConcatRows(tpl, csvData, n - 1) \o FilledPages(tpl, csvData[n])

RECURSIVE SumPageCounts(_, _, _)
SumPageCounts(tpl, csvData, n) ==
  IF n = 0 THEN 0
  ELSE SumPageCounts(tpl, csvData, n - 1) + Len(FilledPages(tpl, csvData[n]))

\* C1: the merged document of a run is the concatenation, in input row order,
\* of the pages of each row's filled document: while row idx is in the
\* pipeline it holds the pages of rows 1..idx-1, and once the loop has ended
\* it holds the pages of all rows, as many as the rows' page counts add up to.
C1_MergedIsConcatenation ==
  \A r \in RunIds :
    /\ runs[r].pc \in RowPcs =>
         runs[r].mergedPdf.pages = ConcatRows(runs[r].tpl, runs[r].csvData, runs[r].idx - 1)
    /\ runs[r].pc \in {"mergeSave", "done"} =>
         /\ runs[r].mergedPdf.pages =
              ConcatRows(runs[r].tpl, runs[r].csvData, Len(runs[r].csvData))
         /\ Len(runs[r].mergedPdf.pages) =
              SumPageCounts(runs[r].tpl, runs[r].csvData, Len(runs[r].csvData))

\* the places a row's pipeline can throw from
RowSteps == {"load", "fill", "flatten", "save", "reload", "copy"}

\* the transition by which run r leaves the pipeline of row idx by an exception
RowFails(r) == runs[r].pc \in RowPcs /\ runs'[r].pc = "failed"

\* C2: when row i of a run fails fatally (load, fill, flatten, serialize,
\* reload or page copy), no artifact is there (completedPdf is null), an error
\* is set and processedCount is i-1.
C2_AbortSemantics ==
  [][\A r \in RunIds :
       RowFails(r) =>
         /\ completedPdf' = Null
         /\ Truthy(error')
         /\ processedCount' = runs[r].idx - 1]_vars

\* the serialized merge of all rows of the input of run r
FullMerge(r) ==
  LET pages == ConcatRows(runs[r].tpl, runs[r].csvData, Len(runs[r].csvData))
  IN [kind |-> "bytes", form |-> <<>>,
      pages |-> IF pages = <<>> THEN <<BlankPage>> ELSE pages]

IsFullMerge(v) == \E r \in RunIds : runs[r].pc = "done" /\ v = FullMerge(r)

\* C3: completedPdf is null or the serialized merge of all rows of one input,
\* and so is what downloadPdf handed to saveAs; a merge of a prefix of the rows
\* is never stored or saved.
C3_NoPartialArtifact ==
  /\ completedPdf = Null \/ IsFullMerge(completedPdf)
  /\ saved = Null \/ IsFullMerge(saved)

\* the merge of a two-row input was saved, while another run had failed after
\* merging a row
C3_Witness ==
  /\ Truthy(saved)
  /\ \E r \in RunIds : runs[r].pc = "done" /\ Len(runs[r].csvData) = 2 /\ saved = FullMerge(r)
  /\ \E q \in RunIds : runs[q].pc = "failed" /\ runs[q].idx = 2

\* C4: a failure message and a downloadable artifact are never there together.
C4_ExclusiveOutcome == ~(Truthy(error) /\ Truthy(completedPdf))

RECURSIVE PopulatedUpTo(_, _)
\* the values of columns 1..n of a row whose name contains "States" and whose
\* value is a text that is not empty once trimmed, in column order
PopulatedUpTo(rowData, n) ==
  IF n = 0 THEN <<>>
  ELSE PopulatedUpTo(rowData, n - 1)
       \o (IF /\ Includes(rowData[n].k, KStates)
              /\ rowData[n].v.t = "str"
              /\ Trim(rowData[n].v.s) # <<>>
           THEN <<rowData[n].v.s>> ELSE <<>>)

RECURSIVE CommaSpaced(_)
CommaSpaced(texts) ==
  IF texts = <<>> THEN <<>>
  ELSE IF Len(texts) = 1 THEN texts[1]
  ELSE CommaSpaced(SubSeq(texts, 1, Len(texts) - 1)) \o <<",", " ">> \o texts[Len(texts)]

ExpectedStates(rowData) == CommaSpaced(PopulatedUpTo(rowData, Len(rowData)))

\* C5: the value written to the field "States" is the populated "States"
\* values of the row joined with ", " in column order (the empty text when
\* there is none), on the form and on every flattened page.
C5_StatesAggregation ==
  /\ (call.pc = "filled" /\ "States" \in DOMAIN call.pdfDoc.form) =>
       call.pdfDoc.form["States"] = ExpectedStates(call.rowData)
  /\ call.pc = "returned" =>
       \A p \in 1..Len(call.bytes.pages) :
         "States" \in DOMAIN call.bytes.pages[p].vals =>
           call.bytes.pages[p].vals["States"] = ExpectedStates(call.rowData)

\* two populated "States" columns and one that is empty or blank were joined
C5_Witness ==
  /\ call.pc = "filled"
  /\ "States" \in DOMAIN call.pdfDoc.form
  /\ Len(PopulatedUpTo(call.rowData, Len(call.rowData))) = 2
  /\ \E i \in 1..Len(call.rowData) :
       /\ Includes(call.rowData[i].k, KStates)
       /\ call.rowData[i].v \in {Null, Str(<<" ">>)}
  /\ call.pdfDoc.form["States"] = <<"C", "A", ",", " ", " ", "N", "Y">>

\* the mapped columns the row lacks
MissingMappings(rowData) ==
  {i \in 1..Len(fieldMappings) :
     \A j \in 1..Len(rowData) : rowData[j].k # fieldMappings[i].csvField}

\* a "States" column holds a number other than 0, or true
HasTypedStates(rowData) ==
  \E j \in 1..Len(rowData) :
    /\ Includes(rowData[j].k, KStates)
    /\ \/ rowData[j].v.t = "num" /\ rowData[j].v.n # 0
       \/ rowData[j].v.t = "bool" /\ rowData[j].v.b

\* C6: for a row that lacks mapped columns, the corresponding fields receive
\* the empty text and the missing column raises no error: fillPdfForm throws
\* only for a typed "States" value, and otherwise fills and returns the document.
C6_MissingColumnsBlank ==
  \A i \in (IF call.pc = "off" THEN {} ELSE MissingMappings(call.rowData)) :
    /\ call.pc = "threw" => HasTypedStates(call.rowData)
    /\ (call.pc = "filled" /\ fieldMappings[i].pdfField \in DOMAIN call.pdfDoc.form) =>
         call.pdfDoc.form[fieldMappings[i].pdfField] = <<>>
    /\ call.pc = "returned" =>
         \A p \in 1..Len(call.bytes.pages) :
           fieldMappings[i].pdfField \in DOMAIN call.bytes.pages[p].vals =>
             call.bytes.pages[p].vals[fieldMappings[i].pdfField] = <<>>

\* a row without the Client column, but with Tax Year, was filled and returned
C6_Witness ==
  /\ call.pc = "returned"
  /\ 1 \in MissingMappings(call.rowData)
  /\ 3 \notin MissingMappings(call.rowData)
  /\ DOMAIN call.bytes.pages[1].vals = PdfFields
  /\ call.bytes.pages[1].vals["Client"] = <<>>
  /\ call.bytes.pages[1].vals["Tax Year"] = <<"x">>

\* the value fillPdfForm gives the field named f
ValueFor(rowData, f) ==
  IF f = "States" THEN statesText(rowData)
  ELSE LET i == CHOOSE j \in 1..Len(fieldMappings) : fieldMappings[j].pdfField = f
       IN ToText(MappedValue(rowData, fieldMappings[i].csvField))

\* C7: on a template that lacks some of the six fields, fillPdfForm does not
\* fail for the missing field (it throws only for a typed "States" value), sets
\* every field that is there, and flattens and returns every page.
C7_MissingFieldNotFatal ==
  (call.pc # "off" /\ DOMAIN call.templateBytes.form # PdfFields) =>
    /\ call.pc = "threw" => HasTypedStates(call.rowData)
    /\ call.pc = "filled" =>
         /\ DOMAIN call.pdfDoc.form = DOMAIN call.templateBytes.form
         /\ \A f \in DOMAIN call.pdfDoc.form :
              call.pdfDoc.form[f] = ValueFor(call.rowData, f)
    /\ call.pc = "returned" =>
         /\ Len(call.bytes.pages) = Len(call.templateBytes.pages)
         /\ \A p \in 1..Len(call.bytes.pages) :
              \A f \in DOMAIN call.templateBytes.form :
                call.bytes.pages[p].vals[f] = ValueFor(call.rowData, f)

\* a template with neither Client nor States: the other fields were set and
\* the document was returned
C7_Witness ==
  /\ call.pc = "returned"
  /\ DOMAIN call.templateBytes.form = PdfFields \ {"Client", "States"}
  /\ call.bytes.pages[1].vals["Tax Year"] = <<"7">>

\* the transition by which run r enters the catch of line 68
Fails(r) == runs[r].pc # "failed" /\ runs'[r].pc = "failed"

\* C8 as stated: two runs that fail with the same cause in different rows
\* surface different error values.
C8_ErrorIdentifiesRow ==
  \A r, q \in RunIds :
    ( /\ runs[r].pc = "failed" /\ runs[r].at \in RowSteps
      /\ runs[q].pc = "failed" /\ runs[q].at \in RowSteps
      /\ runs[r].err = runs[q].err
      /\ runs[r].idx # runs[q].idx ) =>
      ProcessError(runs[r].err) # ProcessError(runs[q].err)

\* C8 as amended: the error a failing run surfaces is the fixed text
\* "Failed to process CSV data: " followed by the message of the cause, and
\* nothing else: it names the cause and not the row.
C8_ErrorNamesCause ==
  [][\A r \in RunIds :
       Fails(r) => error' = Msg("Failed to process CSV data: " \o runs'[r].err)]_vars

\* two runs failed with the same cause, one in row 1 and one in row 2, and the
\* error surfaced is the same for both
C8_Witness ==
  \E r, q \in RunIds :
    /\ runs[r].pc = "failed" /\ runs[r].at = "reload" /\ runs[r].idx = 1
    /\ runs[q].pc = "failed" /\ runs[q].at = "reload" /\ runs[q].idx = 2
    /\ runs[r].err = runs[q].err
    /\ error = Msg("Failed to process CSV data: " \o runs[q].err)

\* C9: at most one row pipeline is under way at any moment.
C9_OneRowInFlight == Cardinality({r \in RunIds : runs[r].pc \in RowPcs}) <= 1

\* C10: a run ends Completed with the artifact set and no error, or Failed with
\* an error set and no artifact.
C10_TerminalOutcome ==
  [][\A r \in RunIds :
       /\ (runs[r].pc # "done" /\ runs'[r].pc = "done") =>
            Truthy(completedPdf') /\ ~Truthy(error')
       /\ Fails(r) => Truthy(error') /\ ~Truthy(completedPdf')]_vars

\* the step by which the parser's error for the file of drop r is handled
ParseErrorStep(r) ==
  /\ runs[r].pc = "reading" /\ ~runs[r].file.ok
  /\ runs'[r].pc = "rejected" /\ runs'[r].at = "parse"

\* C11: when the parser reports an error for a dropped file, the error is
\* surfaced, processing, processedCount and completedPdf are left as they
\* were, and processCsvData is never invoked for that file: its drop never
\* leaves the reader and never comes back from being rejected.
C11_InputFormatError ==
  [][\A r \in RunIds :
       /\ ParseErrorStep(r) =>
            /\ error' = Msg("Error parsing CSV: " \o "malformed")
            /\ UNCHANGED <<processing, processedCount, completedPdf>>
       /\ (runs[r].pc # "idle" /\ ~runs[r].file.ok) => runs'[r].pc \in {"reading", "rejected"}
       /\ runs[r].pc = "rejected" => runs'[r] = runs[r]]_vars

\* a file was rejected by the parser after an earlier input had completed:
\* the earlier artifact and count are still there, next to the parse error
C11_Witness ==
  \E r \in RunIds :
    /\ runs[r].pc = "rejected" /\ runs[r].at = "parse"
    /\ error = Msg("Error parsing CSV: " \o "malformed")
    /\ Truthy(completedPdf) /\ processedCount = 2 /\ ~processing

\* C12: when the template failed to decode, the error of line 26 is set by
\* the very step that fails, and from then on no artifact is there, no row is
\* counted, no run gets past its start, and every run that starts ends at
\* once, before its first row, with the error of line 42 set.
C12_TemplateLoadError ==
  [][/\ (effect = "pending" /\ effect' = "done" /\ templatePdf' = Null) =>
          error' = Msg("Failed to load embedded PDF template: " \o "invalid base64")
     /\ (effect = "done" /\ templatePdf = Null) =>
          /\ completedPdf' = Null
          /\ processedCount' = 0
          /\ ~processing'
          /\ \A r \in RunIds :
               /\ runs'[r].pc \in {"idle", "reading", "rejected", "failed"}
               /\ (runs[r].pc = "reading" /\ runs'[r].pc \notin {"reading", "rejected"}) =>
                    /\ runs'[r].pc = "failed" /\ runs'[r].idx = 0
                    /\ runs'[r].mergedPdf = Null
                    /\ error' = ProcessError(NoTemplate)]_vars

\* without a template, two inputs with rows were dropped one after the other
\* and both runs have ended with the error, no row counted, no artifact
C12_Witness ==
  /\ effect = "done" /\ templatePdf = Null
  /\ \A r \in RunIds :
       runs[r].pc = "failed" /\ runs[r].at = "start" /\ Len(runs[r].csvData) = MaxRows
  /\ error = ProcessError(NoTemplate)
  /\ completedPdf = Null /\ processedCount = 0

\* C13: once loaded, the templatePdf buffer is changed by no step, nor is the
\* template a run holds; the instance a row fills, and the document returned
\* for it, are those of that row filled on the template as it was loaded,
\* whatever rows were filled before.
C13_TemplateNeverMutated ==
  [][/\ effect = "done" => templatePdf' = templatePdf
     /\ \A r \in RunIds :
          /\ runs[r].pc # "idle" => runs'[r].tpl = runs[r].tpl
          /\ runs'[r].pc = "save" =>
               runs'[r].cur =
                 Flatten(FillForm(LoadDoc(templatePdf'), runs'[r].csvData[runs'[r].idx]).doc)
          /\ runs'[r].pc = "reload" =>
               runs'[r].cur = fillPdfForm(templatePdf', runs'[r].csvData[runs'[r].idx]).bytes]_vars

\* the second row of an input is filled after a different first row: its
\* instance carries its own values, and the template is the one loaded
C13_Witness ==
  \E r \in RunIds :
    /\ runs[r].pc = "save" /\ runs[r].idx = 2
    /\ runs[r].csvData = <<RowAcme, RowGlobex>>
    /\ templatePdf = TemplateBytes(PdfFields, 1)
    /\ runs[r].tpl = templatePdf
    /\ runs[r].cur.pages[1].vals["Client"] = TGlobex
    /\ runs[r].mergedPdf.pages[1].vals["Client"] = TAcme

\* the rows of run r whose filled pages are in its merged document
MergedRows(r) ==
  IF runs[r].mergedPdf = Null \/ runs[r].csvData = <<>> THEN 0
  ELSE Len(runs[r].mergedPdf.pages) \div Len(runs[r].tpl.pages)

\* the field values on the pages that the fill of row i of run r produced
RowValues(r, i) ==
  LET n == Len(runs[r].tpl.pages)
  IN [p \in 1..n |-> runs[r].mergedPdf.pages[(i - 1) * n + p].vals]

CoercedOrBlank(v) ==
  IF v \in {Undefined, Null, Str(<<>>)} THEN <<>> ELSE ToText(v)

\* C15: each mapped field that is on the form receives the empty text when
\* the column is absent or empty, and otherwise exactly the column's value
\* coerced to a string, for strings, numbers (0 too), booleans (false too).
C15_ValueCoercion ==
  call.pc = "filled" =>
    \A i \in 1..Len(fieldMappings) :
      fieldMappings[i].pdfField \in DOMAIN call.pdfDoc.form =>
        call.pdfDoc.form[fieldMappings[i].pdfField] =
          CoercedOrBlank(Get(call.rowData, fieldMappings[i].csvField))

\* C16: computing the mapped values and the "States" value raises no error,
\* for every row the parser can deliver: no call of fillPdfForm ends in the
\* catch of line 123.
C16_MapperNeverFails == call.pc # "threw"

\* run r has completed and v is the artifact it stored
ArtifactOf(r, v) == runs[r].pc = "done" /\ v = SaveDoc(runs[r].mergedPdf)

\* C17: while a run is under way processedCount is the number of its rows
\* whose pages are in its merged document, and when an artifact is there
\* processedCount is the number of rows of the input that produced it.
C17_ProgressAccounting ==
  /\ \A r \in RunIds : runs[r].pc \in AwaitPcs => processedCount = MergedRows(r)
  /\ Truthy(completedPdf) =>
       \E r \in RunIds : ArtifactOf(r, completedPdf) /\ processedCount = Len(runs[r].csvData)

\* C18: processing is true exactly while some run has started and has not
\* yet completed or failed.
C18_ProcessingTracksRunning ==
  processing <=> \E r \in RunIds : runs[r].pc \in AwaitPcs

\* C19: an artifact that can be downloaded is the one of the input dropped
\* last: no file was dropped after the one it was produced from.
C19_LatestInput ==
  Truthy(completedPdf) =>
    \E r \in RunIds :
      /\ ArtifactOf(r, completedPdf)
      /\ \A q \in RunIds : q > r => runs[q].pc = "idle"

====
